---- MODULE Spec2Model ----
(***************************************************************************)
(* Model of cpbl_highlights.                                               *)
(*                                                                         *)
(*  - HighlightsList.tsx: the client pagination / window-expansion         *)
(*    controller (React state, refs, effects, the load callback and its    *)
(*    continuation) together with its parent HighlightsControls.           *)
(*  - HighlightsList.tsx videosShown: the client-side AND filter.          *)
(*  - api/records/route.ts: the standings scraper.                         *)
(*                                                                         *)
(* React is modelled at the granularity of renders: an event handler, an   *)
(* effect pass or an async continuation runs to completion and only queues *)
(* state updates (pending); Commit is the render that applies the queue    *)
(* and then runs the effects whose dependencies changed, with the closures *)
(* of that render.  React renders the queued updates before the next       *)
(* handler or continuation runs, so handlers are enabled in Stable states  *)
(* only and always see the closures of the last committed render.          *)
(*                                                                         *)
(* Strings that are searched (titles, tokens, header cells) are sequences  *)
(* of one-character strings; ASCII letters stand in for the CJK text.      *)
(***************************************************************************)
EXTENDS Integers, Sequences, FiniteSets, TLC

VARIABLES
    \* ---- HighlightsControls (parent) ----
    controls,       \* which HighlightsControls revision renders the list
    team,           \* useState team
    \* ---- HighlightsList: props of the constructed component ----
    recentDays,
    \* ---- HighlightsList: committed render ----
    mounted,
    propsRendered,  \* [keywords, titleMustAll] of the last render
    pages, nextPageToken, loading, hitEnd, error, hasRequested, localDays,
    load,           \* the memoised load callback: the values it closed over
    \* ---- refs ----
    idsRef, localDaysRef,
    \* ---- React update queue ----
    pending,
    \* ---- environment ----
    inflight,       \* requests sent to /api/highlights and not yet answered
    sentinelVisible, ioPending,
    \* ---- history variables (observers only, never read by the code) ----
    nfetch, awaitExp, failedNoUser, done, overlap, winToken,
    \* ---- videosShown as a function (specification SpecShown) ----
    fVideos, fMust, fShown, fDone,
    \* ---- standings scraper (specification SpecScrape) ----
    sPage, sOut, sDone,
    sFetched,       \* calls of fetch(SOURCE) made by the handler
    \* ---- GET /api/highlights (specification SpecHandler) ----
    hVariant,       \* which revision of the handler serves the request
    hReq,           \* the query parameters
    hUp,            \* the playlistItems response
    hOut, hDone

listVars == <<controls, team, recentDays, mounted, propsRendered, pages,
              nextPageToken, loading, hitEnd, error, hasRequested, localDays,
              load, idsRef, localDaysRef, pending, inflight,
              sentinelVisible, ioPending, nfetch, awaitExp, failedNoUser,
              done, overlap, winToken>>
shownVars == <<fVideos, fMust, fShown, fDone>>
scrapeVars == <<sPage, sOut, sDone, sFetched>>
handlerVars == <<hVariant, hReq, hUp, hOut, hDone>>
vars == <<listVars, shownVars, scrapeVars, handlerVars>>

----------------------------------------------------------------------------
(* Bounds *)
MaxFetches == 3      \* requests issued in one behaviour
MaxItems == 2        \* items in one /api/highlights response
MaxTitleLen == 2     \* characters in a title (SpecShown)
MaxTokenLen == 2     \* characters in a titleMustAll token (SpecShown)
MaxVideos == 2       \* accumulated videos (SpecShown)
MaxMust == 2         \* tokens in titleMustAll (SpecShown)
MaxRows == 2         \* data rows of the standings table (SpecScrape)
MaxUpstream == 2     \* items in one playlistItems response (SpecHandler)

None == "none"

----------------------------------------------------------------------------
(* Text helpers: String.prototype.toLowerCase / includes *)

LowerChar(c) == IF c = "A" THEN "a" ELSE IF c = "B" THEN "b" ELSE c

toLowerCase(s) == [i \in 1..Len(s) |-> LowerChar(s[i])]

includes(s, m) ==
    \E k \in 0..(Len(s) - Len(m)) : \A i \in 1..Len(m) : s[k + i] = m[i]

----------------------------------------------------------------------------
(* videosShown (HighlightsList.tsx 169-179) *)

flat(ps) ==
    LET RECURSIVE F(_)
        F(i) == IF i > Len(ps) THEN <<>> ELSE ps[i] \o F(i + 1)
    IN F(1)

\* as if the tokens were compared without lower-casing them
videosShownRawTokens(videos, titleMustAll) ==
    IF Len(titleMustAll) = 0 THEN videos
    ELSE LET keep(v) == LET t == toLowerCase(v.title)
                        IN \A i \in 1..Len(titleMustAll) :
                               includes(t, titleMustAll[i])
         IN SelectSeq(videos, keep)

videosShown(videos, titleMustAll) ==
    IF Len(titleMustAll) = 0 THEN videos
    ELSE LET must == [i \in 1..Len(titleMustAll) |-> toLowerCase(titleMustAll[i])]
             keep(v) == LET t == toLowerCase(v.title)
                        IN \A i \in 1..Len(must) : includes(t, must[i])
         IN SelectSeq(videos, keep)

----------------------------------------------------------------------------
(* HighlightsControls *)

\* "q" stands for 全場精華, "r" for a team name, "R" for one of its aliases
KwFullGame == <<"q">>
TEAMS == {"r"}
TeamChoice == TEAMS \cup {None}

\* HighlightsControls.tsx 12-20: keywords fixed, titleMustAll follows team.
\* unnamed/part_002 30-43: keywords follow the team's aliases as well.
keywordsOf(ctl, tm) ==
    IF ctl = "aliases" /\ tm # None THEN <<tm, "R">> ELSE KwFullGame

titleMustAllOf(tm) ==
    IF tm # None THEN <<KwFullGame, <<tm>>>> ELSE <<KwFullGame>>

Props(ctl, tm) == [keywords |-> keywordsOf(ctl, tm),
                   titleMustAll |-> titleMustAllOf(tm)]

pageSize == 24
ExpandStep == 60

----------------------------------------------------------------------------
(* Upstream data seen by the list *)

Videos == { [id |-> "v1", title |-> <<"q", "r">>],
            [id |-> "v2", title |-> <<"q">>] }
Tokens == {"t1"}
Items == UNION { [1..n -> Videos] : n \in 0..MaxItems }

idsOf(items) == { items[i].id : i \in 1..Len(items) }
NoRepeat(items) ==
    \A i, j \in 1..Len(items) : i # j => items[i].id # items[j].id

----------------------------------------------------------------------------
(* The React update queue: one slot per state hook.  <<>> = no update,    *)
(* <<v>> = setX(v).  pages takes setPages([]) and functional appends.      *)

NoPending == [pagesReset |-> FALSE, pagesApp |-> <<>>, nextPageToken |-> <<>>,
              loading |-> <<>>, hitEnd |-> <<>>, error |-> <<>>,
              hasRequested |-> <<>>, localDays |-> <<>>]

Eff(slot, cur) == IF slot = <<>> THEN cur ELSE slot[1]
EffPages(p, cur) == IF p.pagesReset THEN p.pagesApp ELSE cur \o p.pagesApp

----------------------------------------------------------------------------
(* load (HighlightsList.tsx 69-84): the synchronous part up to the fetch.  *)
(* cl is the closure, cursor the argument, ref localDaysRef.current.       *)

\* as if the guard did not test loading
GuardIgnoresLoading(cl, cursor) == cl.hitEnd /\ cursor = None

GuardReturns(cl, cursor) == cl.loading \/ (cl.hitEnd /\ cursor = None)

Load(cl, cursor, ref, p, fl) ==
    IF GuardReturns(cl, cursor)
    THEN [p |-> p, fl |-> fl, issued |-> FALSE]
    ELSE [p |-> [p EXCEPT !.loading = <<TRUE>>, !.error = <<None>>,
                          !.hasRequested = <<TRUE>>],
          fl |-> Append(fl, [limit |-> pageSize, q |-> cl.keywords,
                             days |-> ref, pageToken |-> cursor,
                             mustAll |-> cl.titleMustAll]),
          issued |-> TRUE]

----------------------------------------------------------------------------
(* Initial state of the list: the first render has happened, its effects   *)
(* have not run yet (mounted = FALSE).                                      *)

RecentDaysValues == {30, 0}   \* HighlightsControls passes 30; 0 = unbounded

ListInit ==
    /\ controls \in {"fixed", "aliases"}
    /\ team = None
    /\ recentDays \in RecentDaysValues
    /\ mounted = FALSE
    /\ propsRendered = Props(controls, None)
    /\ pages = <<>>
    /\ nextPageToken = None
    /\ loading = FALSE
    /\ hitEnd = FALSE
    /\ error = None
    /\ hasRequested = FALSE
    /\ localDays = recentDays
    /\ load = [loading |-> FALSE, hitEnd |-> FALSE,
               keywords |-> keywordsOf(controls, None),
               titleMustAll |-> titleMustAllOf(None)]
    /\ idsRef = {}
    /\ localDaysRef = recentDays
    /\ pending = NoPending
    /\ inflight = <<>>
    /\ sentinelVisible \in BOOLEAN
    /\ ioPending = FALSE
    /\ nfetch = 0
    /\ awaitExp = -1
    /\ failedNoUser = FALSE
    /\ done = FALSE
    /\ overlap = FALSE
    /\ winToken = None

ShownIdle == fVideos = <<>> /\ fMust = <<>> /\ fShown = <<>> /\ fDone = FALSE
ScrapeIdle ==
    sPage = <<>> /\ sOut = <<>> /\ sDone = FALSE /\ sFetched = 0

HandlerIdle ==
    /\ hVariant = "edge" /\ hReq = <<>> /\ hUp = <<>>
    /\ hOut = <<>> /\ hDone = FALSE

Init == ListInit /\ ShownIdle /\ ScrapeIdle /\ HandlerIdle

----------------------------------------------------------------------------
(* Effects of one commit (HighlightsList.tsx 56-58, 119-133, 136-147,      *)
(* 151-167), run in declaration order with the closures of that render.    *)

\* as if the reset left the accumulated pages in place
ResetUpdatesKeepingPages(p) ==
    [p EXCEPT !.nextPageToken = <<None>>, !.hitEnd = <<FALSE>>,
              !.error = <<None>>, !.localDays = <<recentDays>>,
              !.hasRequested = <<FALSE>>, !.loading = <<TRUE>>]

\* reset effect, deps [keywords, recentDays, pageSize]
ResetUpdates(p) ==
    [p EXCEPT !.pagesReset = TRUE, !.pagesApp = <<>>,
              !.nextPageToken = <<None>>, !.hitEnd = <<FALSE>>,
              !.error = <<None>>, !.localDays = <<recentDays>>,
              !.hasRequested = <<FALSE>>, !.loading = <<TRUE>>]

\* window-expansion effect, deps [hitEnd, localDays, load]
\* as if the effect widened the unbounded window too
ExpandCondAnyWindow(hitEndR, localDaysR) == hitEndR

ExpandCond(hitEndR, localDaysR) == hitEndR /\ localDaysR > 0

\* as if the expansion emptied the accumulated pages
ExpandUpdatesClearing(p, localDaysR) ==
    [p EXCEPT !.pagesReset = TRUE, !.pagesApp = <<>>,
              !.hitEnd = <<FALSE>>, !.nextPageToken = <<None>>,
              !.localDays = <<localDaysR + ExpandStep>>]

\* as if the window stopped widening at 90 days
ExpandUpdatesCapped(p, localDaysR) ==
    [p EXCEPT !.hitEnd = <<FALSE>>, !.nextPageToken = <<None>>,
              !.localDays = <<IF localDaysR + ExpandStep > 90 THEN 90
                              ELSE localDaysR + ExpandStep>>]

ExpandUpdates(p, localDaysR) ==
    [p EXCEPT !.hitEnd = <<FALSE>>, !.nextPageToken = <<None>>,
              !.localDays = <<localDaysR + ExpandStep>>]

\* nothing is queued for React: the last render is current
Stable ==
    mounted /\ pending = NoPending /\ propsRendered = Props(controls, team)

Commit ==
    /\ ~Stable
    /\ LET props == Props(controls, team)
           \* the render: state after the queued updates
           pagesR == EffPages(pending, pages)
           tokenR == Eff(pending.nextPageToken, nextPageToken)
           loadingR == Eff(pending.loading, loading)
           hitEndR == Eff(pending.hitEnd, hitEnd)
           errorR == Eff(pending.error, error)
           hasReqR == Eff(pending.hasRequested, hasRequested)
           localDaysR == Eff(pending.localDays, localDays)
           \* seenIds = useMemo(.., [pages]): a new Set whenever pages is set
           seenIdsNew == pending.pagesReset \/ pending.pagesApp # <<>>
           \* load = useCallback(.., [baseUrl, keywords, pageSize, loading,
           \*                         hitEnd, seenIds])
           loadNew == \/ ~mounted
                      \/ props.keywords # load.keywords
                      \/ loadingR # load.loading
                      \/ hitEndR # load.hitEnd
                      \/ seenIdsNew
           loadR == IF loadNew
                    THEN [loading |-> loadingR, hitEnd |-> hitEndR,
                          keywords |-> props.keywords,
                          titleMustAll |-> props.titleMustAll]
                    ELSE load
           \* effect: localDaysRef.current = localDays
           runRef == ~mounted \/ localDaysR # localDays
           refR == IF runRef THEN localDaysR ELSE localDaysRef
           \* effect: reset
           runReset == ~mounted \/ props.keywords # propsRendered.keywords
           rB == IF runReset
                 THEN Load(loadR, None, refR, ResetUpdates(NoPending), inflight)
                 ELSE [p |-> NoPending, fl |-> inflight, issued |-> FALSE]
           idsR == IF runReset THEN {} ELSE idsRef
           \* effect: window expansion
           runExpand == /\ ~mounted \/ hitEndR # hitEnd \/ localDaysR # localDays
                           \/ loadNew
                        /\ ExpandCond(hitEndR, localDaysR)
           rC == IF runExpand
                 THEN Load(loadR, None, refR, ExpandUpdates(rB.p, localDaysR),
                           rB.fl)
                 ELSE [p |-> rB.p, fl |-> rB.fl, issued |-> FALSE]
           \* effect: IntersectionObserver re-created and observing
           runIO == \/ ~mounted \/ loadNew \/ loadingR # loading
                    \/ hitEndR # hitEnd \/ tokenR # nextPageToken
           nIssued == (IF rB.issued THEN 1 ELSE 0) + (IF rC.issued THEN 1 ELSE 0)
       IN /\ nfetch + nIssued <= MaxFetches
          /\ mounted' = TRUE
          /\ propsRendered' = props
          /\ pages' = pagesR
          /\ nextPageToken' = tokenR
          /\ loading' = loadingR
          /\ hitEnd' = hitEndR
          /\ error' = errorR
          /\ hasRequested' = hasReqR
          /\ localDays' = localDaysR
          /\ load' = loadR
          /\ localDaysRef' = refR
          /\ idsRef' = idsR
          /\ pending' = rC.p
          /\ inflight' = rC.fl
          /\ ioPending' = (ioPending \/ runIO)
          /\ nfetch' = nfetch + nIssued
          /\ awaitExp' = IF runExpand THEN localDaysR + ExpandStep
                         ELSE IF runReset THEN -1 ELSE awaitExp
          /\ overlap' = (overlap /\ ~runReset)
          /\ winToken' = IF runReset \/ runExpand THEN None ELSE winToken
    /\ UNCHANGED <<controls, team, recentDays, sentinelVisible, failedNoUser,
                   done, shownVars, scrapeVars, handlerVars>>

----------------------------------------------------------------------------
(* load, after the await (HighlightsList.tsx 86-113) *)

\* json.items.filter((v) => !idsRef.current.has(v.id)): the whole filter
\* runs before any id of this response is added
\* as if the response were appended without consulting idsRef
UniqueKeepsAll(items, ids) == items

Unique(items, ids) == SelectSeq(items, LAMBDA v : v.id \notin ids)

\* as if a page that brought nothing new ended the window
SuccessUpdatesEndingOnEmpty(p, unique, token) ==
    [p EXCEPT !.pagesApp = Append(@, unique),
              !.nextPageToken = <<token>>,
              !.hitEnd = IF token = None \/ unique = <<>> THEN <<TRUE>> ELSE @,
              !.loading = <<FALSE>>]

\* setPages(prev => [...prev, unique]); setNextPageToken(token ?? null);
\* if (!token) setHitEnd(true); finally setLoading(false)
SuccessUpdates(p, unique, token) ==
    [p EXCEPT !.pagesApp = Append(@, unique),
              !.nextPageToken = <<token>>,
              !.hitEnd = IF token = None THEN <<TRUE>> ELSE @,
              !.loading = <<FALSE>>]

FetchSucceed(i, items, token) ==
    /\ Stable
    /\ i \in 1..Len(inflight)
    /\ LET unique == Unique(items, idsRef)
       IN /\ idsRef' = idsRef \cup idsOf(unique)
          /\ pending' = SuccessUpdates(pending, unique, token)
    /\ done' = (token = None /\ inflight[i].days = 0)
    /\ failedNoUser' = FALSE
    /\ awaitExp' = -1
    /\ overlap' = (overlap \/ idsOf(items) \cap idsRef # {})
    /\ winToken' = IF /\ inflight[i].q = propsRendered.keywords
                       /\ inflight[i].days = localDaysRef
                    THEN token ELSE winToken
    /\ inflight' = [k \in 1..(Len(inflight) - 1) |->
                        IF k < i THEN inflight[k] ELSE inflight[k + 1]]
    /\ UNCHANGED <<controls, team, recentDays, mounted, propsRendered, pages,
                   nextPageToken, loading, hitEnd, error, hasRequested,
                   localDays, load, localDaysRef, sentinelVisible,
                   ioPending, nfetch, shownVars, scrapeVars, handlerVars>>

\* !res.ok, a rejected fetch, or a body without items: the catch branch
\* as if a failed page were taken for the last page of the window
FailUpdatesEndingWindow(p, msg) ==
    [p EXCEPT !.error = <<msg>>, !.loading = <<FALSE>>, !.hitEnd = <<TRUE>>]

\* catch: setError(e.message); finally: setLoading(false)
FailUpdates(p, msg) == [p EXCEPT !.error = <<msg>>, !.loading = <<FALSE>>]

FetchFail(i, msg) ==
    /\ Stable
    /\ i \in 1..Len(inflight)
    /\ pending' = FailUpdates(pending, msg)
    /\ failedNoUser' = TRUE
    /\ awaitExp' = -1
    /\ inflight' = [k \in 1..(Len(inflight) - 1) |->
                        IF k < i THEN inflight[k] ELSE inflight[k + 1]]
    /\ UNCHANGED <<controls, team, recentDays, mounted, propsRendered, pages,
                   nextPageToken, loading, hitEnd, error, hasRequested,
                   localDays, load, idsRef, localDaysRef,
                   sentinelVisible, ioPending, nfetch, done, overlap, winToken,
                   shownVars, scrapeVars, handlerVars>>

----------------------------------------------------------------------------
(* Triggers *)

\* the observer callback (HighlightsList.tsx 156-161); the observer was
\* created by the last commit that ran the effect, so it closes over the
\* committed load, loading, hitEnd and nextPageToken
IOFires(isIntersecting, loadingR, hitEndR) ==
    isIntersecting /\ ~loadingR /\ ~hitEndR

IOCallback ==
    /\ Stable /\ ioPending
    /\ LET r == IF IOFires(sentinelVisible, loading, hitEnd)
                THEN Load(load, nextPageToken, localDaysRef, pending, inflight)
                ELSE [p |-> pending, fl |-> inflight, issued |-> FALSE]
       IN /\ r.issued => nfetch < MaxFetches
          /\ pending' = r.p
          /\ inflight' = r.fl
          /\ nfetch' = IF r.issued THEN nfetch + 1 ELSE nfetch
    /\ ioPending' = FALSE
    /\ UNCHANGED <<controls, team, recentDays, mounted, propsRendered, pages,
                   nextPageToken, loading, hitEnd, error, hasRequested,
                   localDays, load, idsRef, localDaysRef,
                   sentinelVisible, failedNoUser, done, awaitExp, overlap, winToken,
                   shownVars, scrapeVars, handlerVars>>

\* the sentinel enters or leaves the 300px margin: the observer notifies
Scroll ==
    /\ Stable
    /\ sentinelVisible' = ~sentinelVisible
    /\ ioPending' = TRUE
    /\ failedNoUser' = FALSE
    /\ UNCHANGED <<controls, team, recentDays, mounted, propsRendered, pages,
                   nextPageToken, loading, hitEnd, error, hasRequested,
                   localDays, load, idsRef, localDaysRef, pending,
                   inflight, nfetch, awaitExp, done, overlap, winToken,
                   shownVars, scrapeVars, handlerVars>>

\* the load-more button (HighlightsList.tsx 242-251): rendered when !hitEnd,
\* disabled while loading
ButtonEnabled(hitEndR, loadingR) == ~hitEndR /\ ~loadingR

Click ==
    /\ Stable
    /\ ButtonEnabled(hitEnd, loading)
    /\ LET r == Load(load, nextPageToken, localDaysRef, pending, inflight)
       IN /\ r.issued => nfetch < MaxFetches
          /\ pending' = r.p
          /\ inflight' = r.fl
          /\ nfetch' = IF r.issued THEN nfetch + 1 ELSE nfetch
    /\ failedNoUser' = FALSE
    /\ UNCHANGED <<controls, team, recentDays, mounted, propsRendered, pages,
                   nextPageToken, loading, hitEnd, error, hasRequested,
                   localDays, load, idsRef, localDaysRef, sentinelVisible,
                   ioPending, done, awaitExp, overlap, winToken, shownVars, scrapeVars, handlerVars>>

\* a team button of HighlightsControls (onClick setTeam)
SelectTeam(t) ==
    /\ Stable
    /\ t # team
    /\ team' = t
    /\ failedNoUser' = FALSE
    /\ done' = FALSE
    /\ awaitExp' = -1
    /\ UNCHANGED <<controls, recentDays, mounted, propsRendered, pages,
                   nextPageToken, loading, hitEnd, error, hasRequested,
                   localDays, load, idsRef, localDaysRef, pending, inflight,
                   sentinelVisible, ioPending, nfetch, overlap, winToken,
                   shownVars, scrapeVars, handlerVars>>

\* e.message of the three failures load can meet: a non-2xx status (line 90),
\* a rejected fetch, and json.items.filter on a body without items (line 94)
FailMessages == {"HTTP 500", "Failed to fetch", "json.items is undefined"}

Next ==
    \/ Commit
    \/ \E i \in 1..MaxFetches, items \in Items, token \in Tokens \cup {None} :
           FetchSucceed(i, items, token)
    \/ \E i \in 1..MaxFetches, msg \in FailMessages : FetchFail(i, msg)
    \/ IOCallback
    \/ Scroll
    \/ Click
    \/ \E t \in TeamChoice : SelectTeam(t)

Spec == Init /\ [][Next]_vars

----------------------------------------------------------------------------
(* The expansion chain: the list starts from a positive window and keeps     *)
(* its sentinel inside the proximity margin, every response arrives and     *)
(* carries no continuation token, and the user does nothing.  React renders *)
(* queued updates and the observer delivers its notifications.              *)

InitChain == Init /\ recentDays > 0 /\ sentinelVisible

RespondWithoutToken ==
    \E i \in 1..MaxFetches, items \in Items : FetchSucceed(i, items, None)

NextChain ==
    \/ Commit
    \/ RespondWithoutToken
    \/ IOCallback

FairChain ==
    WF_vars(Commit) /\ WF_vars(RespondWithoutToken) /\ WF_vars(IOCallback)

SpecChain == InitChain /\ [][NextChain]_vars /\ FairChain

----------------------------------------------------------------------------
(* videosShown as a function of the accumulated videos and titleMustAll    *)

\* the list is not running in the function specifications
ListIdle ==
    ListInit /\ controls = "fixed" /\ recentDays = 30 /\ ~sentinelVisible

Chars == {"A", "a", "b"}
StringsUpTo(n) == UNION { [1..k -> Chars] : k \in 0..n }
Titles == StringsUpTo(MaxTitleLen)
MustTokens == StringsUpTo(MaxTokenLen) \ {<<>>}
ShownVideos == { [id |-> "v", title |-> t] : t \in Titles }

ShownInit ==
    /\ fVideos \in UNION { [1..n -> ShownVideos] : n \in 0..MaxVideos }
    /\ fMust \in UNION { [1..n -> MustTokens] : n \in 0..MaxMust }
    /\ fShown = <<>>
    /\ fDone = FALSE

RenderShown ==
    /\ ~fDone
    /\ fShown' = videosShown(fVideos, fMust)
    /\ fDone' = TRUE
    /\ UNCHANGED <<fVideos, fMust, listVars, scrapeVars, handlerVars>>

InitShown == ListIdle /\ ShownInit /\ ScrapeIdle /\ HandlerIdle

NextShown == RenderShown

SpecShown == InitShown /\ [][NextShown]_vars

----------------------------------------------------------------------------
(* Standings scraper: GET of api/records/route.ts.                         *)
(* Text is a sequence of characters; a CJK character is written as its     *)
(* pinyin syllable, "nbsp" is U+00A0.                                      *)

SOURCE == <<"https://www.cpbl.com.tw", "/standings/season">>

IsSpace(c) == c \in {" ", "nbsp"}

\* s.replace(/\s/g, '')
stripSpaces(s) == SelectSeq(s, LAMBDA c : ~IsSpace(c))

\* String.prototype.trim
trim(s) ==
    LET keep == { i \in 1..Len(s) : ~IsSpace(s[i]) }
    IN IF keep = {} THEN <<>>
       ELSE LET lo == CHOOSE i \in keep : \A j \in keep : i <= j
                hi == CHOOSE i \in keep : \A j \in keep : j <= i
            IN [k \in 1..(hi - lo + 1) |-> s[lo + k - 1]]

\* clean = (s) => (s || '').replace(/ /g, '').trim()
clean(s) == trim(SelectSeq(s, LAMBDA c : c # "nbsp"))

\* Array.prototype.findIndex, given the callback's result on each element:
\* 0-based position of the first TRUE, -1 when there is none
findIndex(hits) ==
    IF \E i \in 1..Len(hits) : hits[i]
    THEN (CHOOSE i \in 1..Len(hits) :
              hits[i] /\ \A j \in 1..(i - 1) : ~hits[j]) - 1
    ELSE -1

\* as if .eq(i) always counted from the end of the selection
eqTextFromEnd(cells, i) ==
    IF i >= 0 /\ i < Len(cells) THEN cells[Len(cells) - i].text ELSE <<>>

\* cheerio .eq(i).text(): a negative index counts from the end, an index
\* outside the selection gives the empty selection, whose text is ''
eqText(cells, i) ==
    LET k == IF i < 0 THEN Len(cells) + i ELSE i
    IN IF k >= 0 /\ k < Len(cells) THEN cells[k + 1].text ELSE <<>>

\* as if the href were copied as it is
resolveURLVerbatim(href) ==
    IF href.kind = "full" THEN href.url ELSE <<href.path>>

\* new URL(href, SOURCE).toString() for a path-absolute or full href
resolveURL(href) ==
    IF href.kind = "full" THEN href.url
    ELSE <<SOURCE[1], href.path>>

\* the header keywords of route.ts 50-58
KwGames == <<"chu", "sai", "shu">>               \* 出賽數
KwWDL == <<"sheng", "-", "he", "-", "bai">>     \* 勝-和-敗
KwWinRate == <<"sheng", "lv">>                   \* 勝率
KwGB == <<"sheng", "cha">>                       \* 勝差
KwElim == <<"tao", "tai">>                       \* 淘汰
KwStreakW == <<"lian", "sheng">>                 \* 連勝
KwStreakL == <<"lian", "bai">>                   \* 連敗
KwLast10 == <<"jin", "shi", "chang">>            \* 近十場

\* clean(cells.eq(i).text()) as written for games, wdl, winRate, gb, last10
columnText(cells, i) == clean(eqText(cells, i))

\* as if header positions were counted from 1
idxOneBased(headers, kw) ==
    findIndex([i \in 1..Len(headers) |-> includes(headers[i], kw)]) + 1

\* idx = (kw) => headers.findIndex((h) => h.includes(kw))
idx(headers, kw) ==
    findIndex([i \in 1..Len(headers) |-> includes(headers[i], kw)])

\* one table row (route.ts 79-115): the Row record, or <<>> when skipped
parseRow(headers, cells) ==
    LET iGames == idx(headers, KwGames)
        iWDL == idx(headers, KwWDL)
        iWinRate == idx(headers, KwWinRate)
        iGB == idx(headers, KwGB)
        iElim == findIndex([i \in 1..Len(headers) |->
                               includes(headers[i], KwElim)])
        iStreak == findIndex([i \in 1..Len(headers) |->
                                 includes(headers[i], KwStreakW)
                                 \/ includes(headers[i], KwStreakL)])
        iLast10 == idx(headers, KwLast10)
        sticky == cells[1]
        rank == trim(sticky.rankText)
        teamText ==
            IF trim(sticky.trophyAText) # <<>> THEN trim(sticky.trophyAText)
            ELSE IF trim(sticky.trophyText) # <<>> THEN trim(sticky.trophyText)
            ELSE trim(sticky.text)
        teamHref == sticky.trophyAHref
        row == [rank |-> clean(rank),
                team |-> clean(teamText),
                teamUrl |-> IF teamHref.kind # "none"
                            THEN resolveURL(teamHref) ELSE <<>>,
                games |-> columnText(cells, iGames),
                wdl |-> columnText(cells, iWDL),
                winRate |-> columnText(cells, iWinRate),
                gb |-> columnText(cells, iGB),
                elim |-> IF iElim >= 0 THEN clean(eqText(cells, iElim)) ELSE <<>>,
                streak |-> IF iStreak >= 0 THEN clean(eqText(cells, iStreak))
                           ELSE <<>>,
                last10 |-> columnText(cells, iLast10)]
    IN IF row.team # <<>> THEN <<row>> ELSE <<>>

\* as if the rows were collected last row first
parseRowsLastFirst(headers, trs) ==
    LET RECURSIVE P(_)
        P(k) == IF k > Len(trs) THEN <<>>
                ELSE P(k + 1) \o (IF Len(trs[k]) = 0 THEN <<>>
                                  ELSE parseRow(headers, trs[k]))
    IN P(1)

parseRows(headers, trs) ==
    LET RECURSIVE P(_)
        P(k) == IF k > Len(trs) THEN <<>>
                ELSE (IF Len(trs[k]) = 0 THEN <<>>
                      ELSE parseRow(headers, trs[k])) \o P(k + 1)
    IN P(1)

\* the rendered fragment (route.ts 117-174): colgroup, thead, tbody
dash(x) == IF x = <<>> THEN <<"-">> ELSE x

\* as if a cell were left out when its field is empty
bodyCellsSkippingEmpty(r) ==
    SelectSeq(<<r.rank, r.team, r.games, r.wdl, r.winRate, r.gb, r.elim,
                r.streak, r.last10>>, LAMBDA x : x # <<>>)

\* the td cells of one body row (route.ts 139-153)
bodyCells(r) ==
    <<dash(r.rank), r.team, dash(r.games), dash(r.wdl), dash(r.winRate),
      dash(r.gb), dash(r.elim), dash(r.streak), dash(r.last10)>>

FragmentColumns == 9
colPct == "11.1111%"     \* (100 / 9).toFixed(4) + '%'

renderFragment(rows) ==
    [cols |-> [i \in 1..FragmentColumns |-> colPct],
     head |-> <<"rank", "team", "games", "wdl", "winRate", "gb", "elim",
                "streak", "last10">>,
     body |-> [k \in 1..Len(rows) |-> bodyCells(rows[k])]]

\* as if the upstream status were left out of the failure
upstreamFailedOpaque(status) ==
    [status |-> 502, error |-> <<"CPBL HTTP">>, rows |-> <<>>, html |-> <<>>]

\* { error: `CPBL HTTP ${res.status}` }, { status: 502 }  (route.ts 18-23)
upstreamFailed(status) ==
    [status |-> 502, error |-> <<"CPBL HTTP", status>>, rows |-> <<>>,
     html |-> <<>>]

\* as if a missing block were reported like an unavailable upstream
blockNotFoundAsUpstream ==
    [status |-> 502, error |-> <<"CPBL HTTP", 200>>, rows |-> <<>>,
     html |-> <<>>]

\* { error: 'Standings block not found' }, { status: 500 }  (route.ts 34-39)
blockNotFound ==
    [status |-> 500, error |-> <<"Standings block not found">>,
     rows |-> <<>>, html |-> <<>>]

\* GET (route.ts 9-190).  page.status and page.ok are res.status and res.ok
\* of the one fetch(SOURCE); page.trs are the tr elements of the first table
\* of the wrapper: trs[1] is the header row (its th children), the others
\* are read through children('td,th').
GET(page) ==
    IF ~page.ok THEN upstreamFailed(page.status)
    ELSE IF ~page.wrap THEN blockNotFound
    ELSE LET headers == IF Len(page.trs) = 0 THEN <<>>
                        ELSE [i \in 1..Len(page.trs[1]) |->
                                 stripSpaces(page.trs[1][i].text)]
             rows == parseRows(headers, SubSeq(page.trs, 2, Len(page.trs)))
         IN [status |-> 200, error |-> <<>>, rows |-> rows,
             html |-> renderFragment(rows)]

----------------------------------------------------------------------------
(* Standings pages given to the scraper *)

NoHref == [kind |-> "none"]
PlainCell(t) == [text |-> t, rankText |-> <<>>, trophyText |-> <<>>,
                 trophyAText |-> <<>>, trophyAHref |-> NoHref]
\* <td><div class="rank">r</div><div class="team-w-trophy">[<a href>]t</a></div>
StickyCell(r, t, href) ==
    [text |-> r \o t, rankText |-> r, trophyText |-> t,
     trophyAText |-> IF href.kind = "none" THEN <<>> ELSE t,
     trophyAHref |-> href]

Columns == {"games", "wdl", "winRate", "gb", "elim", "streak", "last10"}
Canonical == <<"games", "wdl", "winRate", "gb", "elim", "streak", "last10">>
Reversed == [i \in 1..7 |-> Canonical[8 - i]]

HeaderOf(c) ==
    CASE c = "rank" -> <<"pai", "ming">>                           \* 排名
      [] c = "team" -> <<"qiu", "dui">>                            \* 球隊
      [] c = "rankteam" -> <<"pai", "ming", "/", "qiu", "dui">>
      [] c = "games" -> <<"chu", "sai", "shu">>
      [] c = "wdl" -> <<"sheng", "-", "he", "-", "bai">>
      [] c = "winRate" -> <<"sheng", "lv">>
      [] c = "gb" -> <<"sheng", "cha">>
      [] c = "elim" -> <<"tao", "tai", "zhi", "shu">>              \* 淘汰指數
      [] c = "streak" -> <<"lian", "sheng", "/", "lian", "bai">>   \* 連勝/連敗
      [] c = "last10" -> <<"jin", "shi", "chang", "zhan", "ji">>   \* 近十場戰績

ValueOf(c) ==
    CASE c = "rank" -> <<"1">>
      [] c = "team" -> <<"T", "e", "a", "m", " ", "A">>
      [] c = "rankteam" -> <<"1">>
      [] c = "games" -> <<"1", "0", "0">>
      [] c = "wdl" -> <<"6", "0", "-", "0", "-", "4", "0">>
      [] c = "winRate" -> <<"0", ".", "6", "0", "0">>
      [] c = "gb" -> <<"-">>
      [] c = "elim" -> <<"5", ".", "0">>
      [] c = "streak" -> <<"W", "3">>
      [] c = "last10" -> <<"7", "-", "3">>

\* whitespace the site puts around text
Padded(ws, t) == IF ws THEN <<" ", "nbsp">> \o t \o <<"nbsp", " ">> ELSE t
Spread(ws, t) == IF ws THEN <<" ">> \o t \o <<"nbsp">> ELSE t

TeamHref == [kind |-> "path", path |-> "/teams/1"]
TeamURL == <<SOURCE[1], "/teams/1">>
\* a link that is an absolute URL already
FullHref == [kind |-> "full", url |-> <<"https://www.youtube.com", "/@CPBL">>]

RowKinds == {"sticky", "stickyNoLink", "plain", "blank", "short"}

DataRow(cols, kind, ws) ==
    LET first == CASE kind = "sticky" ->
                          StickyCell(ValueOf("rank"), ValueOf("team"), TeamHref)
                   [] kind = "short" ->
                          StickyCell(ValueOf("rank"), ValueOf("team"), FullHref)
                   [] kind = "stickyNoLink" ->
                          StickyCell(ValueOf("rank"), ValueOf("team"), NoHref)
                   [] kind = "plain" -> PlainCell(Padded(ws, ValueOf(cols[1])))
                   [] kind = "blank" -> PlainCell(<<"nbsp">>)
    IN IF kind = "short" THEN <<first>>
       ELSE [i \in 1..Len(cols) |->
               IF i = 1 THEN first
               ELSE IF kind = "blank" THEN PlainCell(<<"nbsp">>)
               ELSE PlainCell(Padded(ws, ValueOf(cols[i])))]

Restrict(order, S) == SelectSeq(order, LAMBDA c : c \in S)

HeaderLayouts ==
    { pre \o Restrict(order, S) :
        pre \in { <<"rank", "team">>, <<"rankteam">> },
        order \in {Canonical, Reversed},
        S \in SUBSET Columns }

Page(cols, kinds, ws) ==
    [ok |-> TRUE, status |-> 200, wrap |-> TRUE,
     trs |-> << [i \in 1..Len(cols) |-> PlainCell(Spread(ws, HeaderOf(cols[i])))] >>
             \o [k \in 1..Len(kinds) |-> DataRow(cols, kinds[k], ws)]]

\* statuses of a response that is not ok
UpstreamFailures == {404, 503}

Pages ==
    { Page(cols, kinds, ws) :
        cols \in HeaderLayouts,
        kinds \in UNION { [1..n -> RowKinds] : n \in 0..MaxRows },
        ws \in BOOLEAN }
    \cup { [ok |-> FALSE, status |-> st, wrap |-> FALSE, trs |-> <<>>] :
               st \in UpstreamFailures }
    \cup { [ok |-> TRUE, status |-> 200, wrap |-> FALSE, trs |-> <<>>] }

ScrapeInit ==
    /\ sPage \in Pages
    /\ sOut = <<>>
    /\ sDone = FALSE
    /\ sFetched = 0

Scrape ==
    /\ ~sDone
    /\ sFetched' = sFetched + 1
    /\ sOut' = GET(sPage)
    /\ sDone' = TRUE
    /\ UNCHANGED <<sPage, listVars, shownVars, handlerVars>>

InitScrape == ListIdle /\ ShownIdle /\ ScrapeInit /\ HandlerIdle

NextScrape == Scrape

SpecScrape == InitScrape /\ [][NextScrape]_vars

----------------------------------------------------------------------------
(* GET /api/highlights: the edge revision (unnamed/part_000) and the        *)
(* playlist revision (src/app/api/highlights/route.ts).  YOUTUBE_API_KEY    *)
(* and the playlist id are configured.  Time is counted in hours.           *)

\* ---- JavaScript numbers: NaN, +-Infinity, or the fraction n / d ----
NaN == [k |-> "nan", n |-> 0, d |-> 1]
Infinite(neg) == [k |-> "inf", n |-> IF neg THEN -1 ELSE 1, d |-> 1]
Fin(n, d) == [k |-> "fin", n |-> n, d |-> d]

isNaN(x) == x.k = "nan"
isFinite(x) == x.k = "fin"

\* x < y for numbers that are not NaN
Less(x, y) ==
    IF x.k = "fin" /\ y.k = "fin" THEN x.n * y.d < y.n * x.d
    ELSE IF x.k = "inf" /\ y.k = "inf" THEN x.n < y.n
    ELSE IF x.k = "inf" THEN x.n < 0
    ELSE y.n > 0

mathMax(x, y) == IF isNaN(x) \/ isNaN(y) THEN NaN ELSE IF Less(x, y) THEN y ELSE x

\* as if the cap were not applied
mathMinUncapped(x, y) == y

mathMin(x, y) == IF isNaN(x) \/ isNaN(y) THEN NaN ELSE IF Less(y, x) THEN y ELSE x

Digits == {"0", "1", "2", "3", "4", "5", "9"}
DigitValue(c) ==
    CASE c = "0" -> 0 [] c = "1" -> 1 [] c = "2" -> 2 [] c = "3" -> 3
      [] c = "4" -> 4 [] c = "5" -> 5 [] c = "9" -> 9

Pow10(k) == IF k = 0 THEN 1 ELSE IF k = 1 THEN 10 ELSE IF k = 2 THEN 100 ELSE 1000

\* Number(s) for a string: surrounding whitespace ignored, '' is 0, a signed
\* decimal literal or Infinity is its value, anything else is NaN (the
\* requests carry no exponent, hexadecimal or separator forms)
toNumber(s) ==
    LET t == trim(s)
    IN IF t = <<>> THEN Fin(0, 1)
       ELSE LET neg == t[1] = "-"
                body == IF t[1] \in {"-", "+"} THEN Tail(t) ELSE t
                dots == { i \in 1..Len(body) : body[i] = "." }
                digs == SelectSeq(body, LAMBDA c : c \in Digits)
                RECURSIVE Val(_)
                Val(k) == IF k = 0 THEN 0
                          ELSE 10 * Val(k - 1) + DigitValue(digs[k])
                frac == IF dots = {} THEN 0
                        ELSE Len(body) - (CHOOSE i \in dots : TRUE)
            IN IF body = <<"I", "n", "f", "i", "n", "i", "t", "y">>
               THEN Infinite(neg)
               ELSE IF /\ Len(digs) > 0
                       /\ Cardinality(dots) <= 1
                       /\ Len(digs) + Cardinality(dots) = Len(body)
               THEN Fin((IF neg THEN -1 ELSE 1) * Val(Len(digs)), Pow10(frac))
               ELSE NaN

\* ---- query parameters: searchParams.get(name) is null or a string ----
NotSent == [has |-> FALSE, v |-> <<>>]
Given(s) == [has |-> TRUE, v |-> s]

\* parseNumberOr (route.ts 59-62): Number(raw ?? ''), the default on NaN
parseNumberOr(defaultValue, raw) ==
    LET n == toNumber(IF raw.has THEN raw.v ELSE <<>>)
    IN IF isNaN(n) THEN Fin(defaultValue, 1) ELSE n

\* Number(searchParams.get(name) ?? dflt)  (part_000 74, 80)
numberOrDefault(raw, dflt) == IF raw.has THEN toNumber(raw.v) ELSE Fin(dflt, 1)

MAX_RESULTS == 50
DefaultLimitEdge == 24
DefaultDays == 30
Day == 24                \* 86400000 ms, in hours
Now == 2400              \* Date.now(), in hours

\* ---- keywords ----
\* raw.split(',').map(trim).filter(Boolean), default ['全場精華']
splitComma(s) ==
    LET RECURSIVE S(_, _)
        S(k, cur) == IF k > Len(s) THEN <<cur>>
                     ELSE IF s[k] = "," THEN <<cur>> \o S(k + 1, <<>>)
                     ELSE S(k + 1, Append(cur, s[k]))
    IN S(1, <<>>)

parseKeywords(raw) ==
    LET parts == splitComma(IF raw.has THEN raw.v ELSE <<>>)
        arr == SelectSeq([i \in 1..Len(parts) |-> trim(parts[i])],
                         LAMBDA w : w # <<>>)
    IN IF Len(arr) > 0 THEN arr ELSE <<KwFullGame>>

containsAny(text, words) ==
    /\ text # <<>>
    /\ \E i \in 1..Len(words) :
           includes(toLowerCase(text), toLowerCase(words[i]))

\* ---- publish times ----
NoDate == -1             \* a publishedAt that Date.parse does not read
parseDate(p) == IF p = NoDate THEN NaN ELSE Fin(p, 1)

\* Date.now() - days * 86400000 for finite days
cutoffOf(days) == Fin(Now * days.d - days.n * Day, days.d)

\* as if an item exactly at the cutoff were dropped
notOlderStrict(t, cutoff) == Less(cutoff, t)

\* t >= cutoff
notOlder(t, cutoff) == ~Less(t, cutoff)

NoNumber == [k |-> "none", n |-> 0, d |-> 1]

\* as if an upstream failure were answered like an empty page
failureAsEmptyPage(status, msg, sent, attempts) ==
    [status |-> 200, error |-> <<>>, items |-> <<>>, nextPageToken |-> None,
     maxResults |-> sent, days |-> NoNumber, attempts |-> attempts]

\* NextResponse.json({ error }, { status }); attempts counts the fetches of
\* playlistItems made before the response
failure(status, msg, sent, attempts) ==
    [status |-> status, error |-> msg, items |-> <<>>, nextPageToken |-> None,
     maxResults |-> sent, days |-> NoNumber, attempts |-> attempts]

\* toVideo / the map of route.ts 137-154
toVideo(it) == [id |-> it.videoId, title |-> it.title, publishedAt |-> it.publishedAt]

\* ---- the edge revision: unnamed/part_000 56-159 ----
GETedge(req, up) ==
    LET limitIn == numberOrDefault(req.limit, DefaultLimitEdge)
        limit == IF isFinite(limitIn)
                 THEN mathMax(Fin(1, 1), mathMin(Fin(50, 1), limitIn))
                 ELSE Fin(DefaultLimitEdge, 1)
        daysIn == numberOrDefault(req.days, DefaultDays)
        days == IF isFinite(daysIn) THEN mathMax(Fin(0, 1), daysIn)
                ELSE Fin(DefaultDays, 1)
        hasCutoff == Less(Fin(0, 1), days) /\ cutoffOf(days).n # 0
        mustAll == SelectSeq([i \in 1..Len(req.mustAll) |->
                                 toLowerCase(req.mustAll[i])],
                             LAMBDA m : m # <<>>)
        all == [i \in 1..Len(up.items) |-> toVideo(up.items[i])]
        inWindow(v) == LET t == parseDate(v.publishedAt)
                       IN IF isFinite(t) THEN notOlder(t, cutoffOf(days))
                          ELSE TRUE
        dated == IF hasCutoff THEN SelectSeq(all, inWindow) ELSE all
        titled(v) == \A i \in 1..Len(mustAll) :
                         includes(toLowerCase(v.title), mustAll[i])
        items == IF Len(mustAll) > 0 THEN SelectSeq(dated, titled) ELSE dated
    IN IF ~up.ok THEN failure(502, <<"YouTube HTTP", up.status>>, limit, 1)
       ELSE [status |-> 200, error |-> <<>>, items |-> items,
             nextPageToken |-> up.nextPageToken, maxResults |-> limit,
             days |-> days, attempts |-> 1]

\* ---- the playlist revision: src/app/api/highlights/route.ts 79-196 ----
GETplaylist(req, up) ==
    LET limitRaw == parseNumberOr(MAX_RESULTS, req.limit)
        limit == mathMin(Fin(MAX_RESULTS, 1), mathMax(Fin(1, 1), limitRaw))
        keywords == parseKeywords(req.q)
        daysRaw == parseNumberOr(DefaultDays, req.days)
        days == mathMax(Fin(0, 1), daysRaw)
        hasCutoff == Less(Fin(0, 1), days)
        \* new Date(x) keeps whole time units
        cutoff == Fin(cutoffOf(days).n \div days.d, 1)
        all == SelectSeq([i \in 1..Len(up.items) |-> toVideo(up.items[i])],
                         LAMBDA v : v.id # <<>>)
        byKeyword == SelectSeq(all, LAMBDA v : containsAny(v.title, keywords))
        inWindow(v) == LET t == parseDate(v.publishedAt)
                       IN isFinite(t) /\ notOlder(t, cutoff)
        items == IF hasCutoff THEN SelectSeq(byKeyword, inWindow)
                 ELSE byKeyword
    IN IF hasCutoff /\ ~isFinite(days)
       THEN \* new Date(-Infinity).toISOString() throws; caught at 192-195
            failure(500, <<"Invalid time value">>, NoNumber, 0)
       ELSE IF ~up.ok
       THEN failure(up.status, <<"playlistItems.list error">>, limit, 1)
       ELSE [status |-> 200, error |-> <<>>, items |-> items,
             nextPageToken |-> up.nextPageToken, maxResults |-> limit,
             days |-> days, attempts |-> 1]

GEThighlights(variant, req, up) ==
    IF variant = "edge" THEN GETedge(req, up) ELSE GETplaylist(req, up)

----------------------------------------------------------------------------
(* Requests and upstream pages given to the highlights handler *)

LimitParams ==
    { NotSent, Given(<<>>), Given(<<"a", "b", "c">>), Given(<<"0">>),
      Given(<<"-", "5">>), Given(<<"2", ".", "5">>), Given(<<"2", "4">>),
      Given(<<"5", "1">>) }

DaysParams ==
    { NotSent, Given(<<"0">>), Given(<<"3", "0">>), Given(<<"9", "0">>),
      Given(<<"0", ".", "5">>), Given(<<"a", "b", "c">>),
      Given(<<"I", "n", "f", "i", "n", "i", "t", "y">>) }

MustAllParams ==
    { <<>>, <<KwFullGame>>, <<KwFullGame, <<"A">>>>, <<<<>>, <<"b">>>> }

QParams == { NotSent, Given(KwFullGame) }

Requests ==
    [limit : LimitParams, days : DaysParams, mustAll : MustAllParams,
     q : QParams]

UpstreamItems ==
    { [videoId |-> <<"v1">>, title |-> <<"q", "a">>,
       publishedAt |-> Now - 30 * Day],
      [videoId |-> <<"v2">>, title |-> <<"q">>,
       publishedAt |-> Now - 30 * Day - 1],
      [videoId |-> <<"v3">>, title |-> <<"b">>, publishedAt |-> Now - 1],
      [videoId |-> <<"v4">>, title |-> <<"q">>, publishedAt |-> NoDate],
      [videoId |-> <<"v5">>, title |-> <<"q", "A">>, publishedAt |-> Now - 1] }

\* non-2xx statuses of the video platform: quota exceeded, unavailable
PlatformFailures == {403, 503}

UpstreamPages ==
    { [ok |-> TRUE, status |-> 200, items |-> its, nextPageToken |-> tok] :
        its \in UNION { [1..n -> UpstreamItems] : n \in 0..MaxUpstream },
        tok \in Tokens \cup {None} }
    \cup { [ok |-> FALSE, status |-> st, items |-> <<>>,
            nextPageToken |-> None] : st \in PlatformFailures }

HandlerInit ==
    /\ hVariant \in {"edge", "playlist"}
    /\ hReq \in Requests
    /\ hUp \in UpstreamPages
    /\ hOut = <<>>
    /\ hDone = FALSE

Handle ==
    /\ ~hDone
    /\ hOut' = GEThighlights(hVariant, hReq, hUp)
    /\ hDone' = TRUE
    /\ UNCHANGED <<hVariant, hReq, hUp, listVars, shownVars, scrapeVars>>

InitHandler == ListIdle /\ ShownIdle /\ ScrapeIdle /\ HandlerInit

NextHandler == Handle

SpecHandler == InitHandler /\ [][NextHandler]_vars

----------------------------------------------------------------------------
(* Properties of the pagination controller *)

\* nothing is left to run without a user event or a response
AtRest == Stable /\ ~ioPending

\* the accumulated pages once the queued updates are applied
accumulated == EffPages(pending, pages)

\* C1: after a success without a continuation token in a positive window,
\* the controller by itself issues exactly one request, for the window + 60
\* days and without a cursor: once it is at rest after the expansion, that
\* request is the one in flight.
C1_ExpansionFetchFollows ==
    (AtRest /\ awaitExp # -1) =>
        /\ Len(inflight) = 1
        /\ inflight[1].days = awaitExp
        /\ inflight[1].pageToken = None

\* C2: identifiers that upstream pages share are accumulated once: no id
\* occurs in two accumulated pages, and every id received in the session is
\* in the accumulated pages.
C2_OverlapAccumulatedOnce ==
    /\ \A i, j \in 1..Len(accumulated) :
           i # j => idsOf(accumulated[i]) \cap idsOf(accumulated[j]) = {}
    /\ \A i, j \in 1..Len(pages) :
           i # j => idsOf(pages[i]) \cap idsOf(pages[j]) = {}
    /\ idsRef \subseteq idsOf(flat(accumulated))

C2_Witness ==
    /\ Stable /\ overlap
    /\ Len(pages) = 2
    /\ idsOf(pages[1]) = {"v1"}
    /\ idsOf(pages[2]) = {"v2"}

SessionReset ==
    /\ idsRef = {}
    /\ accumulated = <<>>
    /\ Eff(pending.nextPageToken, nextPageToken) = None
    /\ Eff(pending.hitEnd, hitEnd) = FALSE
    /\ Eff(pending.error, error) = None
    /\ Eff(pending.localDays, localDays) = recentDays

C4_FilterChangeResets ==
    [][propsRendered' # propsRendered => SessionReset']_vars

\* C5: after a failed fetch no request is issued until the user clicks or
\* scrolls.
C5_NoFetchAfterFailure ==
    [][(failedNoUser /\ failedNoUser') => Len(inflight') <= Len(inflight)]_vars

\* C6: after a success without a continuation token in the unbounded window
\* (days = 0) no request is issued until the filter configuration changes.
C6_UnboundedIsTerminal ==
    [][(done /\ team' = team) => Len(inflight') <= Len(inflight)]_vars

\* the terminal state, with the sentinel in view and its notification spent
C6_Witness ==
    /\ done /\ AtRest
    /\ hitEnd /\ localDays = 0 /\ ~loading
    /\ sentinelVisible
    /\ inflight = <<>>

\* C7: a batch appended to the accumulated pages holds each id once, also
\* when the response repeated it.
C7_BatchHoldsIdOnce ==
    \A i \in 1..Len(accumulated) : NoRepeat(accumulated[i])

----------------------------------------------------------------------------
(* Properties of videosShown *)

\* two characters that differ at most in case
SameLetter(a, b) == a = b \/ {a, b} = {"A", "a"} \/ {a, b} = {"B", "b"}

ContainsIgnoringCase(title, tok) ==
    \E k \in 0..(Len(title) - Len(tok)) :
        \A i \in 1..Len(tok) : SameLetter(title[k + i], tok[i])

HasEveryToken(v) ==
    \A i \in 1..Len(fMust) : ContainsIgnoringCase(v.title, fMust[i])

\* C8: the list shown is the accumulated videos, in order, whose title
\* contains every titleMustAll token ignoring case; with no token every
\* video is shown.
C8_ShownIsExactlyTheMatches ==
    fDone =>
        LET kept == { k \in 1..Len(fVideos) : HasEveryToken(fVideos[k]) }
        IN /\ Len(fShown) = Cardinality(kept)
           /\ \E f \in [1..Len(fShown) -> 1..Len(fVideos)] :
                 /\ \A i, j \in 1..Len(fShown) : i < j => f[i] < f[j]
                 /\ { f[i] : i \in 1..Len(fShown) } = kept
                 /\ \A i \in 1..Len(fShown) : fShown[i] = fVideos[f[i]]
           /\ (fMust = <<>> => fShown = fVideos)

\* a token in upper case kept a lower-case title and dropped another video
C8_Witness ==
    /\ fDone
    /\ fMust = << <<"A">>, <<"b">> >>
    /\ fVideos = << [id |-> "v", title |-> <<"a">>],
                    [id |-> "v", title |-> <<"b", "a">>] >>
    /\ fShown = << [id |-> "v", title |-> <<"b", "a">>] >>

----------------------------------------------------------------------------
(* Properties of the standings scraper *)

pageHeaders == [i \in 1..Len(sPage.trs[1]) |-> stripSpaces(sPage.trs[1][i].text)]

Absent(kw) == \A i \in 1..Len(pageHeaders) : ~includes(pageHeaders[i], kw)

\* C9: a column whose keyword is in no header cell is the empty string in
\* every extracted row, and the scrape succeeds.
C9_MissingColumnIsEmpty ==
    (sDone /\ sPage.ok /\ sPage.wrap) =>
        /\ sOut.status = 200
        /\ \A k \in 1..Len(sOut.rows) :
              LET r == sOut.rows[k]
              IN /\ Absent(KwGames) => r.games = <<>>
                 /\ Absent(KwWDL) => r.wdl = <<>>
                 /\ Absent(KwWinRate) => r.winRate = <<>>
                 /\ Absent(KwGB) => r.gb = <<>>
                 /\ Absent(KwElim) => r.elim = <<>>
                 /\ (Absent(KwStreakW) /\ Absent(KwStreakL)) => r.streak = <<>>
                 /\ Absent(KwLast10) => r.last10 = <<>>

\* the table of the example: nine header cells, one row of nine cells
ExamplePage == Page(<<"rank", "team">> \o Canonical, <<"plain">>, FALSE)

ExampleFields(r) ==
    /\ r.games = <<"1", "0", "0">>
    /\ r.wdl = <<"6", "0", "-", "0", "-", "4", "0">>
    /\ r.winRate = <<"0", ".", "6", "0", "0">>
    /\ r.gb = <<"-">>
    /\ r.elim = <<"5", ".", "0">>
    /\ r.streak = <<"W", "3">>
    /\ r.last10 = <<"7", "-", "3">>

\* C10 as claimed: the example yields rank "1", team "Team A", the absolute
\* team URL and the seven column values.
C10_ExampleRowAsClaimed ==
    (sDone /\ sPage = ExamplePage) =>
        /\ Len(sOut.rows) = 1
        /\ sOut.rows[1].rank = <<"1">>
        /\ sOut.rows[1].team = <<"T", "e", "a", "m", " ", "A">>
        /\ sOut.rows[1].teamUrl = TeamURL
        /\ ExampleFields(sOut.rows[1])

\* C10 amended: rank, team and link are read from the first cell only, so
\* the example yields rank "", team "1" (the text of the first cell), no
\* team URL, and the seven column values as stated.
C10_ExampleRow ==
    (sDone /\ sPage = ExamplePage) =>
        /\ Len(sOut.rows) = 1
        /\ sOut.rows[1].rank = <<>>
        /\ sOut.rows[1].team = <<"1">>
        /\ sOut.rows[1].teamUrl = <<>>
        /\ ExampleFields(sOut.rows[1])

C10_Witness == sDone /\ sPage = ExamplePage /\ sOut.status = 200

----------------------------------------------------------------------------
(* Column order of the standings table *)

\* the seven fields read through the column indices
SevenFields(r) ==
    <<r.games, r.wdl, r.winRate, r.gb, r.elim, r.streak, r.last10>>

\* the page with the cells of every row rearranged by p: position i holds
\* what position p[i] held
PermuteColumns(page, p) ==
    [page EXCEPT !.trs = [k \in 1..Len(page.trs) |->
                             [i \in 1..Len(page.trs[k]) |-> page.trs[k][p[i]]]]]

\* the rearrangements tried: every exchange of two columns, and the reversal
Rearrangements(n) ==
    { [i \in 1..n |-> IF i = a THEN b ELSE IF i = b THEN a ELSE i] :
        a \in 1..n, b \in 1..n }
    \cup { [i \in 1..n |-> n + 1 - i] }

OccursOnce(kws) ==
    Cardinality({ i \in 1..Len(pageHeaders) :
                    \E kw \in kws : includes(pageHeaders[i], kw) }) = 1

\* every column keyword is in exactly one header cell and every row has a
\* cell under every header cell
EveryColumnOnce ==
    /\ sPage.ok /\ sPage.wrap
    /\ OccursOnce({KwGames}) /\ OccursOnce({KwWDL}) /\ OccursOnce({KwWinRate})
    /\ OccursOnce({KwGB}) /\ OccursOnce({KwElim})
    /\ OccursOnce({KwStreakW, KwStreakL}) /\ OccursOnce({KwLast10})
    /\ \A k \in 1..Len(sPage.trs) : Len(sPage.trs[k]) = Len(sPage.trs[1])

\* C11: when every column keyword is in exactly one header cell, rearranging
\* the header cells together with the cells of every row leaves the seven
\* column fields of every extracted row as they were.
C11_ColumnOrderIndependent ==
    (sDone /\ EveryColumnOnce) =>
        \A p \in Rearrangements(Len(sPage.trs[1])) :
            LET other == GET(PermuteColumns(sPage, p))
            IN /\ other.status = sOut.status
               /\ Len(other.rows) = Len(sOut.rows)
               /\ \A k \in 1..Len(sOut.rows) :
                     SevenFields(other.rows[k]) = SevenFields(sOut.rows[k])

\* a table in the reversed column order with two extracted rows
C11_Witness ==
    /\ sDone /\ EveryColumnOnce
    /\ pageHeaders[2] = HeaderOf("last10")
    /\ Len(sOut.rows) = 2
    /\ sOut.rows[1].games = ValueOf("games")
    /\ sOut.rows[2].last10 = ValueOf("last10")

----------------------------------------------------------------------------
(* Rows kept by the standings scraper *)

NonBlank(t) == \E i \in 1..Len(t) : ~IsSpace(t[i])

\* the text a row's team name is resolved from: the link of the team block,
\* else the team block, else the whole first cell
TeamSource(cells) ==
    IF NonBlank(cells[1].trophyAText) THEN cells[1].trophyAText
    ELSE IF NonBlank(cells[1].trophyText) THEN cells[1].trophyText
    ELSE cells[1].text

\* the rows after the header, and those with a team name
DataRows == [k \in 1..(Len(sPage.trs) - 1) |-> sPage.trs[k + 1]]

HasTeam(cells) == Len(cells) > 0 /\ NonBlank(TeamSource(cells))

\* C12: the output rows are the rows after the header whose team name is
\* not empty after trimming, each once and in table order; no output row
\* has an empty team.
C12_RowsAreTheNamedRows ==
    (sDone /\ sPage.ok /\ sPage.wrap) =>
        LET named == { k \in 1..Len(DataRows) : HasTeam(DataRows[k]) }
            out == sOut.rows
        IN /\ Len(out) = Cardinality(named)
           /\ \A i \in 1..Len(out) : out[i].team # <<>>
           /\ \E f \in [1..Len(out) -> 1..Len(DataRows)] :
                 /\ \A i, j \in 1..Len(out) : i < j => f[i] < f[j]
                 /\ { f[i] : i \in 1..Len(out) } = named
                 /\ \A i \in 1..Len(out) :
                       /\ out[i].team = trim(TeamSource(DataRows[f[i]]))
                       /\ out[i].rank = trim(DataRows[f[i]][1].rankText)
                       /\ (out[i].teamUrl = <<>>)
                              = (DataRows[f[i]][1].trophyAHref = NoHref)

\* a blank row dropped and the row after it kept
C12_Witness ==
    /\ sDone /\ sPage.ok /\ sPage.wrap
    /\ Len(DataRows) = 2
    /\ ~HasTeam(DataRows[1])
    /\ HasTeam(DataRows[2])
    /\ Len(sOut.rows) = 1
    /\ sOut.rows[1].team = ValueOf("team")

----------------------------------------------------------------------------
(* Failures of the standings handler *)

\* C13: when no wrapper has the caption marker, the handler answers with
\* status 500 and the error 'Standings block not found', which no
\* unavailable-upstream answer equals in status or in text, and gives no
\* fragment.
C13_MissingBlockIsDistinctFailure ==
    (sDone /\ sPage.ok /\ ~sPage.wrap) =>
        /\ sOut.status = 500
        /\ sOut.error = <<"Standings block not found">>
        /\ sOut.html = <<>> /\ sOut.rows = <<>>
        /\ \A st \in UpstreamFailures :
              LET down == GET([ok |-> FALSE, status |-> st, wrap |-> FALSE,
                               trs |-> <<>>])
              IN down.status # sOut.status /\ down.error # sOut.error

C13_Witness == sDone /\ sPage.ok /\ ~sPage.wrap /\ sOut.status = 500

\* C14: when the upstream response is not ok, the handler has fetched once,
\* answers with a failure that carries the upstream status code, and
\* produces no rows and no fragment.
C14_UpstreamFailureSurfaced ==
    (sDone /\ ~sPage.ok) =>
        /\ sFetched = 1
        /\ sOut.status >= 400
        /\ sOut.error = <<"CPBL HTTP", sPage.status>>
        /\ sOut.rows = <<>> /\ sOut.html = <<>>

C14_Witness ==
    sDone /\ sPage.status = 503 /\ sOut.error = <<"CPBL HTTP", 503>>

----------------------------------------------------------------------------
(* Properties of the highlights handler *)

\* the days value of the request, when it is a decimal literal
DaysAsked == toNumber(hReq.days.v)
DaysIsNumber == hReq.days.has /\ hReq.days.v # <<>> /\ isFinite(DaysAsked)

Readable(items) == SelectSeq(items, LAMBDA v : v.publishedAt # NoDate)

\* publish time t is not before now - days * 86400000, days = n / d
AtOrAfterCutoff(t, n, d) == t * d >= Now * d - n * Day

\* what the same request returns when it asks for days = 0
Unwindowed ==
    GEThighlights(hVariant, [hReq EXCEPT !.days = Given(<<"0">>)], hUp)

C16_MustAllEnforced ==
    (hDone /\ hOut.status = 200) =>
        \A k \in 1..Len(hOut.items) : \A i \in 1..Len(hReq.mustAll) :
            ContainsIgnoringCase(hOut.items[k].title, hReq.mustAll[i])

\* the same for the edge revision alone
EdgeEnforcesMustAll == hVariant = "edge" => C16_MustAllEnforced

\* C17: whatever the limit parameter, the maxResults the handler sends
\* upstream is a number from 1 to 50.
C17_PageSizeClamped ==
    (hDone /\ hOut.maxResults # NoNumber) =>
        /\ hOut.maxResults.k = "fin"
        /\ hOut.maxResults.n >= hOut.maxResults.d
        /\ hOut.maxResults.n <= 50 * hOut.maxResults.d

\* limit=51 was sent upstream as 50, limit=-5 as 1, limit=2.5 as 2.5
C17_Witness ==
    /\ hDone
    /\ hReq.limit = Given(<<"5", "1">>)
    /\ hOut.maxResults = Fin(50, 1)

\* C18: a request without days is served with the 30-day window, and a
\* request without limit with the default page size of the revision (24 in
\* the edge revision, 50 in the one using parseNumberOr).
C18_AbsentTakesDefault ==
    (hDone /\ hOut.status = 200) =>
        /\ ~hReq.days.has => hOut.days = Fin(DefaultDays, 1)
        /\ ~hReq.limit.has =>
              hOut.maxResults = Fin(IF hVariant = "edge" THEN DefaultLimitEdge
                                    ELSE MAX_RESULTS, 1)

\* the same for the edge revision alone
EdgeAbsentTakesDefault == hVariant = "edge" => C18_AbsentTakesDefault

----------------------------------------------------------------------------
(* The rendered standings fragment *)

\* C19: the fragment has 9 col elements of one width, the 9 header cells
\* rank, team, games, win-draw-loss, win rate, games behind, elimination
\* number, streak, last-ten in that order, and one body row of exactly 9
\* cells per extracted row, however many columns the upstream table has.
C19_FragmentHasNineColumns ==
    (sDone /\ sOut.status = 200) =>
        LET f == sOut.html
        IN /\ Len(f.cols) = 9
           /\ \A i, j \in 1..Len(f.cols) : f.cols[i] = f.cols[j]
           /\ f.head = <<"rank", "team", "games", "wdl", "winRate", "gb",
                         "elim", "streak", "last10">>
           /\ Len(f.body) = Len(sOut.rows)
           /\ \A k \in 1..Len(f.body) :
                 /\ Len(f.body[k]) = 9
                 /\ f.body[k][2] = sOut.rows[k].team
                 /\ f.body[k][7] \in {sOut.rows[k].elim, <<"-">>}
                 /\ f.body[k][9] \in {sOut.rows[k].last10, <<"-">>}

\* an upstream table of three columns whose row has empty fields
C19_Witness ==
    /\ sDone /\ sOut.status = 200
    /\ Len(sPage.trs[1]) = 3
    /\ Len(sOut.rows) = 1
    /\ sOut.rows[1].elim = <<>>
    /\ Len(sOut.html.body[1]) = 9

----------------------------------------------------------------------------
(* Team links of the standings rows *)

\* the rows after the header that are extracted, in table order (C12)
NamedRows == SelectSeq(DataRows, HasTeam)

----------------------------------------------------------------------------
(* Further properties of the pagination controller *)

\* the cursor once the queued updates are applied
cursorNow == Eff(pending.nextPageToken, nextPageToken)

\* the one request in flight was issued for other keywords than those of
\* the session now rendered, and this step delivers its response
StaleResponseArrives ==
    /\ Stable
    /\ Len(inflight) = 1
    /\ inflight[1].q # propsRendered.keywords
    /\ inflight' = <<>>

\* C22: the response to a request issued before the reconfiguration adds no
\* item to the accumulated pages of the new session, no id to its seen-id
\* set, and does not replace its cursor.
C22_StaleResponseDiscarded ==
    [][StaleResponseArrives =>
           /\ flat(accumulated)' = flat(accumulated)
           /\ idsRef' = idsRef
           /\ cursorNow' = cursorNow]_vars

\* loading once the queued updates are applied
loadingNow == Eff(pending.loading, loading)

\* C23: whenever loading is set a request is in flight; the controller is
\* never left with loading set and nothing outstanding.
C23_LoadingHasFetch == loadingNow => Len(inflight) > 0

\* the window once the queued updates are applied
windowNow == Eff(pending.localDays, localDays)

ExpansionStep == windowNow' = windowNow + ExpandStep

\* C25: the window expansion leaves the accumulated pages and the seen-id
\* set as they were (and loading and error with them): it changes the
\* exhausted flag, the cursor and the window only.
C25_ExpansionKeepsPages ==
    [][ExpansionStep =>
           /\ accumulated' = accumulated
           /\ idsRef' = idsRef
           /\ loadingNow' = loadingNow
           /\ Eff(pending.error, error)' = Eff(pending.error, error)
           /\ Eff(pending.hitEnd, hitEnd)' = FALSE
           /\ cursorNow' = None]_vars

\* the window was widened to 90 days over one accumulated video, and a
\* response that repeated a seen id has been filtered since
C25_Witness ==
    /\ Stable /\ overlap
    /\ localDays > recentDays
    /\ idsRef = {"v1"}
    /\ flat(pages) = << [id |-> "v1", title |-> <<"q", "r">>] >>

\* the handler's request reached the video platform and was refused
PlatformRefused == hDone /\ hOut.attempts > 0 /\ ~hUp.ok

\* C21: when the video platform answers with a non-2xx status, the handler
\* answers with an error and no items, with status 502 (edge revision) or
\* the platform's own status (playlist revision), after one request to it.
C21_PlatformFailureSurfaced ==
    PlatformRefused =>
        /\ hOut.items = <<>>
        /\ hOut.error # <<>>
        /\ hOut.nextPageToken = None
        /\ hOut.status = (IF hVariant = "edge" THEN 502 ELSE hUp.status)
        /\ hOut.status \in {hUp.status, 500, 502}
        /\ hOut.attempts = 1

C21_Witness ==
    /\ PlatformRefused /\ hVariant = "playlist"
    /\ hUp.status = 503 /\ hOut.status = 503 /\ hOut.items = <<>>

hitEndNow == Eff(pending.hitEnd, hitEnd)
errorNow == Eff(pending.error, error)

\* a response is taken off the wire and load's catch block runs
ResponseFails ==
    /\ Stable /\ Len(inflight') = Len(inflight) - 1
    /\ pending'.error # <<>> /\ errorNow' \in FailMessages

\* C26: a failed fetch sets error and clears loading; the accumulated pages,
\* the seen-id set, the cursor, the exhausted flag and the window stay as
\* they were.
C26_FailureChangesNothingElse ==
    [][ResponseFails =>
           /\ accumulated' = accumulated
           /\ idsRef' = idsRef
           /\ cursorNow' = cursorNow
           /\ hitEndNow' = hitEndNow
           /\ windowNow' = windowNow
           /\ localDaysRef' = localDaysRef
           /\ Eff(pending.hasRequested, hasRequested)'
                  = Eff(pending.hasRequested, hasRequested)
           /\ loadingNow' = FALSE]_vars

\* the second page of a window failed: one video and a cursor are kept
C26_Witness ==
    /\ pending.error = <<"json.items is undefined">> /\ pending.loading = <<FALSE>>
    /\ idsRef = {"v1"} /\ Len(flat(pages)) = 1
    /\ nextPageToken = "t1" /\ ~hitEnd /\ pending.hitEnd = <<>>
    /\ localDays = 30

\* a load-more click or the observer callback sends a request
TriggerFetch == Stable /\ Len(inflight') = Len(inflight) + 1

\* C27: every request sent by a click or by the observer carries the token
\* of the latest successful response of the current window (none if there
\* has been none), and is sent while no other request is outstanding.
C27_TriggerCarriesLatestToken ==
    [][TriggerFetch =>
           /\ inflight'[Len(inflight')].pageToken = winToken
           /\ inflight = <<>>]_vars

\* the same, for the controls whose keywords never change
C27_WithoutReconfiguration ==
    [][TriggerFetch /\ controls = "fixed" =>
           /\ inflight'[Len(inflight')].pageToken = winToken
           /\ inflight = <<>>]_vars

\* a trigger asked for the page after the one just received
C27_FollowedToken ==
    /\ controls = "fixed" /\ Len(inflight) = 1
    /\ inflight[1].pageToken = "t1" /\ winToken = "t1" /\ nfetch = 2

\* what load queues when it receives the handler's answer in a fresh session
clientUpdates ==
    SuccessUpdates(NoPending, Unique(hOut.items, {}), hOut.nextPageToken)

\* C28: the handler passes the platform's continuation token through (null
\* when there is none) whatever its filters removed, and the client that
\* receives the answer marks the window exhausted exactly when that token is
\* null, whether or not the page brought items.
C28_TokenPassesFilters ==
    hDone /\ hOut.status = 200 =>
        /\ hOut.nextPageToken = hUp.nextPageToken
        /\ clientUpdates.nextPageToken = <<hUp.nextPageToken>>
        /\ clientUpdates.hitEnd = (IF hUp.nextPageToken = None THEN <<TRUE>>
                                   ELSE <<>>)

\* a page with a token whose two items were both filtered out
C28_Witness ==
    /\ hDone /\ hOut.status = 200
    /\ Len(hUp.items) = 2 /\ hOut.items = <<>>
    /\ hUp.nextPageToken = "t1" /\ hOut.nextPageToken = "t1"
    /\ clientUpdates.hitEnd = <<>>

\* C29: once the queued updates are applied, the seen-id set holds exactly
\* the identifiers of the accumulated videos.
C29_SeenIdsAreAccumulatedIds ==
    /\ \A id \in idsRef : \E k \in 1..Len(flat(accumulated)) :
           flat(accumulated)[k].id = id
    /\ \A k \in 1..Len(flat(accumulated)) : flat(accumulated)[k].id \in idsRef

\* a reset has emptied the set while the pages of the previous session are
\* still the rendered state, their removal queued
C29_Witness ==
    /\ mounted /\ idsOf(flat(pages)) = {"v1", "v2"}
    /\ pending.pagesReset /\ idsRef = {} /\ accumulated = <<>>

====
